---- MODULE Spec2Model ----
(***************************************************************************)
(* ControllerCLI of joycontrol/command_line_interface.py: the interpreter  *)
(* coroutine run() and the "mendez" background loop tasks it starts,       *)
(* cancels and lists, all scheduled by one asyncio event loop.             *)
(*                                                                         *)
(* One action is one uninterrupted stretch of a coroutine between two      *)
(* suspension points.  run() processes the sub-commands of a line one      *)
(* after the other without giving the event loop a chance to schedule a    *)
(* worker (awaiting a coroutine that never suspends does not yield), so    *)
(* the worker steps are guarded by Yielded.                                *)
(***************************************************************************)
EXTENDS Integers, Sequences, FiniteSets, TLC

\* ------------------------------------------------------------------ bounds
MaxSegs == 2      \* sub-commands of one input line
MaxTasks == 2     \* task objects of one key that exist at the same time

\* ------------------------------------------------------------ vocabulary
Keys == {"A", "B"}                 \* button names given to mendez
Commands == {"reg"}                \* self.commands: names added by add_command
Builtins == {"mendez", "mendez_stop", "mendez_list"}   \* the cmd_* methods
CmdNames == {"reg", "aux", "A"}    \* names add_command may be given
Handlers == {"h1", "h2"}           \* the coroutine functions it may be given
NoHandler == "none"                \* name not in self.commands

TaskIds == 1 .. MaxTasks
NoTask == 0

\* The sub-command strings a line is made of, as their lexemes; " " is a
\* run of white space, <<>> the empty string.
Segments ==
    { <<>>, <<" ">>, <<"exit">>, <<"mendez_list">>, <<"reg">>, <<"bogus">>,
      <<"mendez", "A", "x">>, <<"mendez", "A">> }
    \cup { <<"mendez", k, "50">> : k \in Keys }
    \cup { <<"mendez_stop", k>> : k \in Keys }
    \cup { <<k>> : k \in Keys }

\* user_input, already cut at "&&": str.split never returns an empty list.
Lines == UNION { [1 .. n -> Segments] : n \in 1 .. MaxSegs }

VARIABLES
    available,        \* controller_state.button_state.get_available_buttons()
    ipc,              \* where run() is
    cause,            \* why run() ended
    line,             \* user_input.split('&&') of the line being processed
    idx,              \* position of the for loop in line
    buttons_to_push,  \* the raw-token batch of the line
    log,              \* what run() has done for the line, in order
    tasks,            \* the asyncio task objects created for each key
    mendez_tasks,     \* self._mendez_tasks: key -> task (of that key)
    commands,         \* self.commands: name -> handler
    added             \* the last call of add_command and how it ended

vars == <<available, ipc, cause, line, idx, buttons_to_push, log, tasks,
          mendez_tasks, commands, added>>

\* ------------------------------------------------------------ pure helpers
\* shlex.split(command): the words of the segment, white space dropped.
shlex_split(command) == SelectSeq(command, LAMBDA w : w # " ")

\* not user_input: the line is the empty string.
IsEmptyInput(l) == Len(l) = 1 /\ l[1] = <<>>

\* int(interval_ms) succeeds.
ParsesAsInt(s) == s \in {"50"}

KeyRank == [k \in Keys |-> IF k = "A" THEN 1 ELSE 2]

RECURSIVE sorted(_)
sorted(S) ==
    IF S = {} THEN <<>>
    ELSE LET m == CHOOSE x \in S : \A y \in S : KeyRank[x] <= KeyRank[y]
         IN  <<m>> \o sorted(S \ {m})

\* A task object is named by the key it was created for and a number: the
\* entry of a key in self._mendez_tasks is always a task created for it.
Free == [pc |-> "free", cancel |-> FALSE, how |-> "-"]
Created == [pc |-> "new", cancel |-> FALSE, how |-> "-"]
Finished(how) == [pc |-> "done", cancel |-> FALSE, how |-> how]

\* Bug variant: a task counts as done as soon as its cancellation is requested.
done_on_cancel(ts, k, t) == ts[k][t].pc = "done" \/ ts[k][t].cancel

\* task.done()
done(ts, k, t) == ts[k][t].pc = "done"

\* A finished task object nothing refers to any more is collected.
Collect(ts, mt) ==
    [k \in Keys |-> [t \in TaskIds |->
        IF ts[k][t].pc = "done" /\ mt[k] # t THEN Free ELSE ts[k][t]]]

\* Bug variant: the test of done() without its "not": nothing is cancelled.
CancelAll_inverted(ts, mt) == ts

\* for b, t in list(self._mendez_tasks.items()):
\*     if t and not t.done(): t.cancel()
CancelAll(ts, mt) ==
    [k \in Keys |-> [t \in TaskIds |->
        IF mt[k] = t /\ ~done(ts, k, t)
        THEN [ts[k][t] EXCEPT !.cancel = TRUE] ELSE ts[k][t]]]

\* [b for b, t in self._mendez_tasks.items() if t and not t.done()]
activos == { k \in Keys : mendez_tasks[k] # NoTask /\ ~done(tasks, k, mendez_tasks[k]) }

\* What the entry of key k in self._mendez_tasks is at the moment.
EntryState(k) ==
    IF mendez_tasks[k] = NoTask THEN "absent"
    ELSE LET task == tasks[k][mendez_tasks[k]]
         IN  IF task.pc = "done" THEN task.how
             ELSE IF task.cancel THEN "stopping" ELSE "live"

\* One record of the log: the event, the sub-command it belongs to, what was
\* printed, the tokens concerned, and for mendez and mendez_stop what the
\* entry of the key was when the handler was called.
Entry(ev, res, toks, was) ==
    [ev |-> ev, seg |-> idx, res |-> res, toks |-> toks, was |-> was]

\* cmd in self.commands
Registered == { n \in CmdNames : commands[n] # NoHandler }

NotAdded == [name |-> "-", command |-> "-", res |-> "-"]

\* ------------------------------------------------------------------- Init
Init ==
    /\ available \in {{"A", "B"}, {"A"}}
    /\ ipc = "idle"
    /\ cause = "none"
    /\ line = <<>>
    /\ idx = 0
    /\ buttons_to_push = <<>>
    /\ log = <<>>
    /\ tasks = [k \in Keys |-> [t \in TaskIds |-> Free]]
    /\ mendez_tasks = [k \in Keys |-> NoTask]
    /\ commands = [n \in CmdNames |-> IF n \in Commands THEN "h1" ELSE NoHandler]
    /\ added = NotAdded

\* ------------------------------------------------------------ add_command
\* Bug variant: the name is bound without looking for an earlier binding.
add_command_overwrite(name, command) ==
    /\ commands' = [commands EXCEPT ![name] = command]
    /\ added' = [name |-> name, command |-> command, res |-> "ok"]

\* CLI.add_command(name, command)
add_command(name, command) ==
    IF name \in Registered
    THEN /\ added' = [name |-> name, command |-> command, res |-> "ValueError"]
         /\ UNCHANGED commands
    ELSE /\ commands' = [commands EXCEPT ![name] = command]
         /\ added' = [name |-> name, command |-> command, res |-> "ok"]

\* The set-up of the session, before run() is started: commands are added.
AddCommand ==
    /\ ipc = "setup"
    /\ \E name \in CmdNames, command \in Handlers : add_command(name, command)
    /\ UNCHANGED <<available, ipc, cause, line, idx, buttons_to_push, log, tasks,
                   mendez_tasks>>

RegInit ==
    /\ available \in {{"A", "B"}, {"A"}}
    /\ ipc = "setup"
    /\ cause = "none"
    /\ line = <<>>
    /\ idx = 0
    /\ buttons_to_push = <<>>
    /\ log = <<>>
    /\ tasks = [k \in Keys |-> [t \in TaskIds |-> Free]]
    /\ mendez_tasks = [k \in Keys |-> NoTask]
    /\ commands = [n \in CmdNames |-> NoHandler]
    /\ added = NotAdded

RegNext == AddCommand

\* The registry during set-up.
RegSpec == RegInit /\ [][RegNext]_vars

\* run() is suspended (or over) and the event loop may run a worker.
Yielded == ipc # "dispatch"

\* ---------------------------------------------------------- run(): input
\* ainput returns the empty string: continue.
ReadEmpty ==
    /\ ipc = "idle"
    /\ UNCHANGED vars

\* ainput returns a non-empty line; buttons_to_push = [].
ReadLine ==
    /\ ipc = "idle"
    /\ \E l \in Lines :
        /\ ~IsEmptyInput(l)
        /\ line' = l
    /\ idx' = 1
    /\ buttons_to_push' = <<>>
    /\ log' = <<>>
    /\ ipc' = "dispatch"
    /\ UNCHANGED <<available, commands, added, cause, tasks, mendez_tasks>>

Dispatching == ipc = "dispatch" /\ idx <= Len(line)
words == shlex_split(line[idx])
cmd == Head(words)
args == Tail(words)

\* cmd, *args = shlex.split(command) with nothing to unpack: ValueError,
\* raised outside every try block.
SegUnpackError ==
    /\ Dispatching
    /\ words = <<>>
    /\ ipc' = "raised"
    /\ cause' = "unpack"
    /\ UNCHANGED <<available, commands, added, line, idx, buttons_to_push, log, tasks, mendez_tasks>>

\* Bug variant: exit only leaves the for loop, the end of the line still runs.
SegExit_break ==
    /\ Dispatching
    /\ words # <<>>
    /\ cmd = "exit"
    /\ tasks' = CancelAll(tasks, mendez_tasks)
    /\ idx' = Len(line) + 1
    /\ cause' = "exit"
    /\ UNCHANGED <<available, commands, added, ipc, line, buttons_to_push, log, mendez_tasks>>

\* if cmd == 'exit': cancel every mendez that is not done, return.
SegExit ==
    /\ Dispatching
    /\ words # <<>>
    /\ cmd = "exit"
    /\ tasks' = CancelAll(tasks, mendez_tasks)
    /\ ipc' = "returned"
    /\ cause' = "exit"
    /\ UNCHANGED <<available, commands, added, line, idx, buttons_to_push, log, mendez_tasks>>

\* Bug variant: no except clause around the handler, its exception leaves run().
Handled_uncaught(res, toks, was) ==
    /\ log' = log \o <<Entry("call", "-", <<>>, "-"), Entry("return", res, toks, was)>>
    /\ IF res \in {"ValueError", "TypeError", "Exception"}
       THEN idx' = idx /\ ipc' = "raised" /\ cause' = "handler"
       ELSE idx' = idx + 1 /\ ipc' = ipc /\ cause' = cause
    /\ UNCHANGED <<available, commands, added, line, buttons_to_push>>

\* The handler of the sub-command ran to its end, printing res (or the
\* exception it raised, caught by except Exception): on to the next one.
Handled(res, toks, was) ==
    /\ log' = log \o <<Entry("call", "-", <<>>, "-"), Entry("return", res, toks, was)>>
    /\ idx' = idx + 1
    /\ UNCHANGED <<available, commands, added, ipc, cause, line, buttons_to_push>>

\* Bug variant: the entry is tested for presence only.
HasLiveLoop_present(button) == mendez_tasks[button] # NoTask

\* Bug variant: the test of done() without its "not".
HasLiveLoop_inverted(button) ==
    mendez_tasks[button] # NoTask /\ done(tasks, button, mendez_tasks[button])

\* button in self._mendez_tasks and not self._mendez_tasks[button].done()
HasLiveLoop(button) ==
    mendez_tasks[button] # NoTask /\ ~done(tasks, button, mendez_tasks[button])

\* Bug variant: the task is created and not stored in self._mendez_tasks.
Spawn_unregistered(button, t) ==
    /\ mendez_tasks' = mendez_tasks
    /\ tasks' = [tasks EXCEPT ![button][t] = Created]

\* asyncio.create_task(...); self._mendez_tasks[button] = task
Spawn(button, t) ==
    LET mt == [mendez_tasks EXCEPT ![button] = t]
        ts == [tasks EXCEPT ![button][t] = Created]
    IN  /\ mendez_tasks' = mt
        /\ tasks' = Collect(ts, mt)

\* The name of the task object create_task returns: one no object of the
\* key will bear once the entry of the key is overwritten.
Unused(button, t) == tasks[button][t].pc \in {"free", "done"}
FreshTask(button, t) ==
    /\ Unused(button, t)
    /\ \A u \in TaskIds : Unused(button, u) => t <= u

\* Bug variant: the period is validated before the live loop is looked for.
cmd_mendez_validate_first(button, interval_ms) ==
    IF ~ParsesAsInt(interval_ms)
    THEN /\ Handled("ValueError", <<button>>, EntryState(button))
         /\ UNCHANGED <<tasks, mendez_tasks>>
    ELSE IF HasLiveLoop(button)
    THEN /\ Handled("already", <<button>>, EntryState(button))
         /\ UNCHANGED <<tasks, mendez_tasks>>
    ELSE /\ \E t \in TaskIds : FreshTask(button, t) /\ Spawn(button, t)
         /\ Handled("started", <<button>>, EntryState(button))

\* Bug variant: a loop is started without looking for a live one.
cmd_mendez_unchecked(button, interval_ms) ==
    IF ~ParsesAsInt(interval_ms)
    THEN /\ Handled("ValueError", <<button>>, EntryState(button))
         /\ UNCHANGED <<tasks, mendez_tasks>>
    ELSE /\ \E t \in TaskIds : FreshTask(button, t) /\ Spawn(button, t)
         /\ Handled("started", <<button>>, EntryState(button))

\* cmd_mendez(button, interval_ms)
cmd_mendez(button, interval_ms) ==
    IF HasLiveLoop(button)
    THEN /\ Handled("already", <<button>>, EntryState(button))
         /\ UNCHANGED <<tasks, mendez_tasks>>
    ELSE IF ~ParsesAsInt(interval_ms)
    THEN /\ Handled("ValueError", <<button>>, EntryState(button))
         /\ UNCHANGED <<tasks, mendez_tasks>>
    ELSE /\ \E t \in TaskIds : FreshTask(button, t) /\ Spawn(button, t)
         /\ Handled("started", <<button>>, EntryState(button))

\* Bug variant: only a missing entry counts as nothing to stop.
cmd_mendez_stop_nodone(button) ==
    LET task == mendez_tasks[button]
    IN  IF task = NoTask
        THEN /\ Handled("nothing", <<button>>, EntryState(button))
             /\ UNCHANGED <<tasks, mendez_tasks>>
        ELSE /\ tasks' = [tasks EXCEPT ![button][task].cancel = TRUE]
             /\ Handled("stopped", <<button>>, EntryState(button))
             /\ UNCHANGED mendez_tasks

\* cmd_mendez_stop(button)
cmd_mendez_stop(button) ==
    LET task == mendez_tasks[button]
    IN  IF task = NoTask \/ done(tasks, button, task)
        THEN /\ Handled("nothing", <<button>>, EntryState(button))
             /\ UNCHANGED <<tasks, mendez_tasks>>
        ELSE /\ tasks' = [tasks EXCEPT ![button][task].cancel = TRUE]
             /\ Handled("stopped", <<button>>, EntryState(button))
             /\ UNCHANGED mendez_tasks

\* cmd_mendez_list()
cmd_mendez_list ==
    /\ Handled("list", sorted(activos), "-")
    /\ UNCHANGED <<tasks, mendez_tasks>>

\* hasattr(self, f'cmd_{cmd}'): the built-in is called with *args; a wrong
\* number of arguments is a TypeError, caught and printed like any other.
SegBuiltin ==
    /\ Dispatching
    /\ words # <<>>
    /\ cmd \in Builtins
    /\ CASE cmd = "mendez" ->
              IF Len(args) = 2 THEN cmd_mendez(args[1], args[2])
              ELSE Handled("TypeError", <<>>, "-") /\ UNCHANGED <<tasks, mendez_tasks>>
         [] cmd = "mendez_stop" ->
              IF Len(args) = 1 THEN cmd_mendez_stop(args[1])
              ELSE Handled("TypeError", <<>>, "-") /\ UNCHANGED <<tasks, mendez_tasks>>
         [] cmd = "mendez_list" ->
              IF Len(args) = 0 THEN cmd_mendez_list
              ELSE Handled("TypeError", <<>>, "-") /\ UNCHANGED <<tasks, mendez_tasks>>

\* elif cmd in self.commands: the registered handler is awaited.  It is
\* foreign code: it may finish at once or suspend, and succeed or raise.
SegRegistered ==
    /\ Dispatching
    /\ words # <<>>
    /\ cmd \notin Builtins \cup {"exit"}
    /\ cmd \in Registered
    /\ \/ \E res \in {"ok", "Exception"} :
            Handled(res, <<>>, "-")
       \/ /\ log' = Append(log, Entry("call", "-", <<>>, "-"))
          /\ ipc' = "handler"
          /\ UNCHANGED <<available, commands, added, cause, line, idx, buttons_to_push>>
    /\ UNCHANGED <<tasks, mendez_tasks>>

\* The suspended registered handler finishes.
HandlerReturn ==
    /\ ipc = "handler"
    /\ \E res \in {"ok", "Exception"} :
        log' = Append(log, Entry("return", res, <<>>, "-"))
    /\ idx' = idx + 1
    /\ ipc' = "dispatch"
    /\ UNCHANGED <<available, commands, added, cause, line, buttons_to_push, tasks, mendez_tasks>>

\* elif cmd in available_buttons: buttons_to_push.append(cmd)
SegRaw ==
    /\ Dispatching
    /\ words # <<>>
    /\ cmd \notin Builtins \cup {"exit"} \cup Registered
    /\ cmd \in available
    /\ buttons_to_push' = Append(buttons_to_push, cmd)
    /\ idx' = idx + 1
    /\ UNCHANGED <<available, commands, added, ipc, cause, line, log, tasks, mendez_tasks>>

\* else: print('command', cmd, 'not found, call help for help.')
SegNotFound ==
    /\ Dispatching
    /\ words # <<>>
    /\ cmd \notin Builtins \cup {"exit"} \cup Registered \cup available
    /\ log' = Append(log, Entry("print", "notfound", <<>>, "-"))
    /\ idx' = idx + 1
    /\ UNCHANGED <<available, commands, added, ipc, cause, line, buttons_to_push, tasks, mendez_tasks>>

\* ---------------------------------------------------- run(): end of line
\* if buttons_to_push: await button_push(...) else: await send()
EndOfLine ==
    /\ ipc = "dispatch"
    /\ idx > Len(line)
    /\ IF buttons_to_push # <<>>
       THEN /\ log' = Append(log, Entry("push", "-", buttons_to_push, "-"))
            /\ ipc' = "pushing"
       ELSE /\ log' = Append(log, Entry("flush", "-", <<>>, "-"))
            /\ ipc' = "flushing"
    /\ UNCHANGED <<available, commands, added, cause, line, idx, buttons_to_push, tasks, mendez_tasks>>

\* Back at the top of while True.
Prompt ==
    /\ ipc' = "idle"
    /\ line' = <<>>
    /\ idx' = 0
    /\ buttons_to_push' = <<>>
    /\ log' = <<>>
    /\ UNCHANGED <<available, commands, added, cause>>

\* button_push returns.
PushDone ==
    /\ ipc = "pushing"
    /\ Prompt
    /\ UNCHANGED <<tasks, mendez_tasks>>

\* button_push raises NotConnectedError: no try block surrounds the call.
PushLost ==
    /\ ipc = "pushing"
    /\ ipc' = "raised"
    /\ cause' = "push_lost"
    /\ UNCHANGED <<available, commands, added, line, idx, buttons_to_push, log, tasks, mendez_tasks>>

\* controller_state.send() returns.
FlushDone ==
    /\ ipc = "flushing"
    /\ Prompt
    /\ UNCHANGED <<tasks, mendez_tasks>>

\* except NotConnectedError: cancel every mendez that is not done, return.
FlushLost ==
    /\ ipc = "flushing"
    /\ tasks' = CancelAll(tasks, mendez_tasks)
    /\ ipc' = "returned"
    /\ cause' = "flush_lost"
    /\ UNCHANGED <<available, commands, added, line, idx, buttons_to_push, log, mendez_tasks>>

\* -------------------------------------------------------- _mendez_worker
\* finally: task = self._mendez_tasks.get(button);
\*          if task and task.done(): self._mendez_tasks.pop(button, None)
\* It runs inside the worker, whose own task is not done yet.
Cleanup(button) ==
    IF mendez_tasks[button] # NoTask /\ done(tasks, button, mendez_tasks[button])
    THEN [mendez_tasks EXCEPT ![button] = NoTask]
    ELSE mendez_tasks

\* The coroutine of task t of key k returns after its finally block.
Finish(k, t, how) ==
    LET mt == Cleanup(k)
        ts == [tasks EXCEPT ![k][t] = Finished(how)]
    IN  /\ mendez_tasks' = mt
        /\ tasks' = Collect(ts, mt)
        /\ UNCHANGED <<available, commands, added, ipc, cause, line, idx, buttons_to_push, log>>

\* Bug variant: a task cancelled before its first step still runs up to its
\* first await, the push.
WorkerCancelledUnstarted_runs(k, t) ==
    /\ Yielded
    /\ tasks[k][t].pc = "new"
    /\ tasks[k][t].cancel
    /\ tasks' = [tasks EXCEPT ![k][t].pc = "push"]
    /\ UNCHANGED <<available, commands, added, ipc, cause, line, idx, buttons_to_push, log, mendez_tasks>>

\* A task cancelled before its first step: CancelledError is thrown into the
\* coroutine before it has entered its try block, so no finally runs.
WorkerCancelledUnstarted(k, t) ==
    /\ Yielded
    /\ tasks[k][t].pc = "new"
    /\ tasks[k][t].cancel
    /\ tasks' = Collect([tasks EXCEPT ![k][t] = Finished("cancelled")], mendez_tasks)
    /\ UNCHANGED <<available, commands, added, ipc, cause, line, idx, buttons_to_push, log, mendez_tasks>>

\* CancelledError is thrown in at the await the worker is suspended in
\* (button_push or asyncio.sleep): except asyncio.CancelledError: pass.
WorkerCancelled(k, t) ==
    /\ Yielded
    /\ tasks[k][t].pc \in {"push", "sleep"}
    /\ tasks[k][t].cancel
    /\ Finish(k, t, "cancelled")

\* if button not in available: print, return.
WorkerInvalid(k, t) ==
    /\ Yielded
    /\ tasks[k][t].pc = "new"
    /\ ~tasks[k][t].cancel
    /\ k \notin available
    /\ Finish(k, t, "invalid")

\* Bug variant: the loop swallows the cancellation and pushes on.
WorkerPush_ignores_cancel(k, t) ==
    /\ Yielded
    /\ \/ tasks[k][t].pc = "new" /\ k \in available
       \/ tasks[k][t].pc = "sleep"
    /\ tasks' = [tasks EXCEPT ![k][t].pc = "push"]
    /\ UNCHANGED <<available, commands, added, ipc, cause, line, idx, buttons_to_push, log, mendez_tasks>>

\* await button_push(self.controller_state, button): begun, suspended in it.
WorkerPush(k, t) ==
    /\ Yielded
    /\ ~tasks[k][t].cancel
    /\ \/ tasks[k][t].pc = "new" /\ k \in available
       \/ tasks[k][t].pc = "sleep"
    /\ tasks' = [tasks EXCEPT ![k][t].pc = "push"]
    /\ UNCHANGED <<available, commands, added, ipc, cause, line, idx, buttons_to_push, log, mendez_tasks>>

\* button_push returns; await asyncio.sleep(interval).
WorkerSleep(k, t) ==
    /\ Yielded
    /\ ~tasks[k][t].cancel
    /\ tasks[k][t].pc = "push"
    /\ tasks' = [tasks EXCEPT ![k][t].pc = "sleep"]
    /\ UNCHANGED <<available, commands, added, ipc, cause, line, idx, buttons_to_push, log, mendez_tasks>>

\* Bug variant: the loop that lost the connection stops every other loop too.
WorkerLost_stops_all(k, t) ==
    /\ Yielded
    /\ ~tasks[k][t].cancel
    /\ tasks[k][t].pc = "push"
    /\ mendez_tasks' = Cleanup(k)
    /\ tasks' = CancelAll([tasks EXCEPT ![k][t] = Finished("lost")], mendez_tasks)
    /\ UNCHANGED <<available, commands, added, ipc, cause, line, idx, buttons_to_push, log>>

\* button_push raises NotConnectedError: print, leave the loop.
WorkerLost(k, t) ==
    /\ Yielded
    /\ ~tasks[k][t].cancel
    /\ tasks[k][t].pc = "push"
    /\ Finish(k, t, "lost")

\* button_push raises something else: except Exception: print.
WorkerError(k, t) ==
    /\ Yielded
    /\ ~tasks[k][t].cancel
    /\ tasks[k][t].pc = "push"
    /\ Finish(k, t, "error")

WorkerStep(k, t) ==
    \/ WorkerCancelledUnstarted(k, t)
    \/ WorkerCancelled(k, t)
    \/ WorkerInvalid(k, t)
    \/ WorkerPush(k, t)
    \/ WorkerSleep(k, t)
    \/ WorkerLost(k, t)
    \/ WorkerError(k, t)

Worker == \E k \in Keys, t \in TaskIds : WorkerStep(k, t)

\* ------------------------------------------------------------------- Next
Next ==
    \/ ReadEmpty
    \/ ReadLine
    \/ SegUnpackError
    \/ SegExit
    \/ SegBuiltin
    \/ SegRegistered
    \/ HandlerReturn
    \/ SegRaw
    \/ SegNotFound
    \/ EndOfLine
    \/ PushDone
    \/ PushLost
    \/ FlushDone
    \/ FlushLost
    \/ Worker

Spec == Init /\ [][Next]_vars

\* The synchronous stretch of run() between two awaits always runs on.  The
\* event loop takes its ready callbacks first in, first out: a worker that
\* is ready is run before run() is resumed from an await it has really
\* suspended in (ainput at the latest), so a worker that is ready again and
\* again is run, although it cannot run while run() dispatches.
DispatchStep ==
    SegUnpackError \/ SegExit \/ SegBuiltin \/ SegRegistered \/ SegRaw
        \/ SegNotFound \/ EndOfLine

FairSpec ==
    /\ Spec
    /\ WF_vars(DispatchStep)
    /\ \A k \in Keys, t \in TaskIds : SF_vars(WorkerStep(k, t))

\* ================================================================= claims
\* The task objects of key k whose coroutine has not finished.
LiveTasks(k) == { t \in TaskIds : tasks[k][t].pc \in {"new", "push", "sleep"} }

\* The last record of the log.
Last == log[Len(log)]
Returned(res) == Len(log) > 0 /\ Last.ev = "return" /\ Last.res = res

\* run() is about to call cmd_mendez(k, p) / cmd_mendez_stop(k).
StartIssued(k) ==
    Dispatching /\ words # <<>> /\ cmd = "mendez" /\ Len(args) = 2 /\ args[1] = k
StopIssued(k) ==
    Dispatching /\ words # <<>> /\ cmd = "mendez_stop" /\ Len(args) = 1 /\ args[1] = k

\* run() is over, by return or by an exception leaving it.
Ended == ipc \in {"returned", "raised"}

\* C1: every key has at most one loop task that is not finished, in every
\* reachable state; and a start(K) issued while a loop of K is live spawns no
\* task, leaves the entry of K unchanged and reports "already active".
C1_OneLiveLoopPerKey ==
    /\ [](\A k \in Keys : Cardinality(LiveTasks(k)) <= 1)
    /\ [][\A k \in Keys :
            (StartIssued(k) /\ LiveTasks(k) # {}) =>
                /\ tasks' = tasks
                /\ mendez_tasks'[k] = mendez_tasks[k]
                /\ log'[Len(log')].ev = "return"
                /\ log'[Len(log')].res = "already"]_vars

\* A start was refused as already active while the loop of its key is live.
C1_Witness ==
    /\ Returned("already")
    /\ LiveTasks(Last.toks[1]) # {}
    /\ \E k \in Keys : k # Last.toks[1] /\ LiveTasks(k) = {}

\* C2: when the combined push of a non-empty batch fails with a connectivity
\* error, run() ends by returning, not by an exception, and cancellation has
\* been requested for every loop that is not finished.
C2_PushLossHandled ==
    (Ended /\ Len(log) > 0 /\ Last.ev = "push") =>
        /\ ipc = "returned"
        /\ \A k \in Keys : \A t \in LiveTasks(k) : tasks[k][t].cancel

\* C3: run() ends only when a sub-command is exit or the device reports a
\* connectivity loss; any other line brings it back to the prompt.
C3_EndsOnlyOnExitOrLoss ==
    Ended =>
        \/ idx <= Len(line) /\ words # <<>> /\ cmd = "exit"
        \/ Len(log) > 0 /\ Last.ev \in {"push", "flush"}

FinishedHow == {"cancelled", "lost", "error", "invalid"}

\* cmd_mendez(k, p) is about to be called with a period that parses.
ValidStartIssued(k) == StartIssued(k) /\ ParsesAsInt(args[2])

\* The step reported res and left a new, live task as the entry of k.
StartedNew(k) ==
    /\ log'[Len(log')].ev = "return"
    /\ log'[Len(log')].res = "started"
    /\ mendez_tasks'[k] # NoTask
    /\ tasks'[k][mendez_tasks'[k]] = Created
    /\ \A t \in TaskIds \ {mendez_tasks'[k]} : tasks'[k][t].pc \in {"free", "done"}

\* The step reported res and changed neither the tasks nor the mapping.
Refused(res) ==
    /\ log'[Len(log')].ev = "return"
    /\ log'[Len(log')].res = res
    /\ tasks' = tasks
    /\ mendez_tasks' = mendez_tasks

\* C4 as claimed: once stop(K) has confirmed, any later start(K), also the
\* next sub-command of the same line, succeeds and registers a new live loop.
C4_StartAfterStopSucceeds ==
    [][\A k \in Keys :
        (ValidStartIssued(k) /\ EntryState(k) \in {"stopping", "cancelled"})
            => StartedNew(k)]_vars

\* C4 amended: after stop(K) has confirmed, a start(K) with a valid period
\* succeeds and registers a new live loop once the cancelled task has run and
\* finished; before that it reports "already active" and changes nothing.
C4_StartAfterStopFinished ==
    [][\A k \in Keys :
        /\ (ValidStartIssued(k) /\ EntryState(k) = "cancelled") => StartedNew(k)
        /\ (ValidStartIssued(k) /\ EntryState(k) = "stopping") => Refused("already")]_vars

\* A start has succeeded on a key whose loop had been stopped and had finished.
C4_Witness == Returned("started") /\ Last.was = "cancelled"

\* What a line is expected to do, read off the line itself.
HeadOf(seg) == IF shlex_split(seg) = <<>> THEN "" ELSE Head(shlex_split(seg))
NoExit(l) == \A i \in DOMAIN l : HeadOf(l[i]) # "exit"
IsHandlerSeg(seg) == HeadOf(seg) \in Builtins \cup Commands
IsRawSeg(seg) == ~IsHandlerSeg(seg) /\ HeadOf(seg) \in available

RECURSIVE RawTokens(_)
RawTokens(l) ==
    IF l = <<>> THEN <<>>
    ELSE (IF IsRawSeg(Head(l)) THEN <<HeadOf(Head(l))>> ELSE <<>>) \o RawTokens(Tail(l))

RECURSIVE HandlerSegs(_, _)
HandlerSegs(l, i) ==
    IF i > Len(l) THEN <<>>
    ELSE (IF IsHandlerSeg(l[i]) THEN <<i, i>> ELSE <<>>) \o HandlerSegs(l, i + 1)

Events(evs) == SelectSeq(log, LAMBDA e : e.ev \in evs)
SegsOf(es) == [i \in DOMAIN es |-> es[i].seg]
EvsOf(es) == [i \in DOMAIN es |-> es[i].ev]

\* run() has left the for loop over the sub-commands of the line.
LineOver == line # <<>> /\ ipc \in {"pushing", "flushing", "returned", "raised"}

\* C5: for a line without exit, every built-in or registered sub-command is
\* called once, left to right, each returning before the next is called, raw
\* tokens call nothing, and once the last sub-command is done there is exactly
\* one push, of the raw tokens of the line in their order.
C5_ChainInOrderThenOnePush ==
    (LineOver /\ NoExit(line)) =>
        /\ SegsOf(Events({"call", "return"})) = HandlerSegs(line, 1)
        /\ \A i \in DOMAIN Events({"call", "return"}) :
              EvsOf(Events({"call", "return"}))[i] = IF i % 2 = 1 THEN "call" ELSE "return"
        /\ IF RawTokens(line) = <<>>
           THEN Events({"push"}) = <<>>
           ELSE /\ Len(Events({"push"})) = 1
                /\ Last.ev = "push"
                /\ Last.toks = RawTokens(line)

\* C6: exit requests the cancellation of every loop that is not finished
\* before run() returns, and with the tasks scheduled fairly every loop then
\* finishes, so that list() reports no key.
C6_ExitCancelsAllLoops ==
    /\ [][(Dispatching /\ words # <<>> /\ cmd = "exit") =>
            /\ ipc' = "returned"
            /\ \A k \in Keys : \A t \in LiveTasks(k) : tasks'[k][t].cancel]_vars
    /\ (cause = "exit") ~> (activos = {} /\ \A k \in Keys : LiveTasks(k) = {})

\* exit has just been processed with a loop of every key still running.
C6_Witness ==
    /\ cause = "exit"
    /\ \A k \in Keys : \E t \in LiveTasks(k) : tasks[k][t].pc \in {"push", "sleep"}

\* C7: after a successful start(K) list() contains K; after stop(K) the loop
\* finishes at its next step and list() no longer contains K; and K comes
\* back into list() only by a successful start(K).
C7_StartListStopRoundTrip ==
    /\ [][\A k \in Keys :
            /\ (StartIssued(k) /\ log'[Len(log')].res = "started") => k \in activos'
            /\ (k \notin activos /\ k \in activos') =>
                    (StartIssued(k) /\ log'[Len(log')].res = "started")]_vars
    /\ \A k \in Keys : (EntryState(k) = "stopping") ~> (k \notin activos)

\* The loop of a key has been stopped and has finished: list() is without it.
C7_Witness ==
    \E k \in Keys : EntryState(k) = "cancelled" /\ k \notin activos /\ ipc = "idle"

\* C8: stop(K) on a key without entry or with a finished entry reports
\* "nothing to stop", raises nothing, requests no cancellation and leaves
\* list() and every loop as they were.
C8_StopWithoutLoopIsNoOp ==
    [][\A k \in Keys :
        (StopIssued(k) /\ EntryState(k) \in {"absent"} \cup FinishedHow) =>
            /\ Refused("nothing")
            /\ activos' = activos]_vars

\* One line has stopped a key that never had a loop and a key whose loop had
\* finished.
C8_Witness ==
    /\ \E i \in DOMAIN log : log[i].res = "nothing" /\ log[i].was = "absent"
    /\ \E i \in DOMAIN log : log[i].res = "nothing" /\ log[i].was \in FinishedHow

\* C9: once the loop of a key has finished, by whatever path, the mapping
\* holds no entry for the key.
C9_FinishedEntryRemoved ==
    \A k \in Keys : EntryState(k) \notin FinishedHow

\* C10: once the loop of K has finished, by whatever path, a start(K) with a
\* valid period is accepted and spawns a new live loop, also while the
\* finished entry is still in the mapping.
C10_StartAfterFinishAccepted ==
    [][\A k \in Keys :
        (ValidStartIssued(k) /\ EntryState(k) \in FinishedHow) => StartedNew(k)]_vars

\* One line has restarted a key whose loop had lost the connection or failed
\* and a key whose loop had ended on an invalid key.
C10_Witness ==
    /\ \E i \in DOMAIN log : log[i].res = "started" /\ log[i].was \in {"lost", "error"}
    /\ \E i \in DOMAIN log : log[i].res = "started" /\ log[i].was = "invalid"

\* C11: add_command of a name that is already registered fails with the
\* duplicate error and leaves self.commands, the handler bound to the name
\* included, as it was; a name not yet registered is always accepted and
\* bound to the handler given.
C11_DuplicateNameRejected ==
    [][\A n \in CmdNames :
        (added' # added /\ added'.name = n) =>
            IF commands[n] # NoHandler
            THEN added'.res = "ValueError" /\ commands' = commands
            ELSE /\ added'.res = "ok"
                 /\ commands' = [commands EXCEPT ![n] = added'.command]]_vars

\* A name was refused although another handler was offered for it, after a
\* second, different name had been accepted.
C11_Witness ==
    /\ added.res = "ValueError"
    /\ commands[added.name] \notin {NoHandler, added.command}
    /\ \E n \in CmdNames \ {added.name} : commands[n] # NoHandler

\* C12: start(K, p) with a period that does not parse as an integer fails
\* with the invalid-argument error when K has no live loop, and reports
\* "already active" when it has one; either way no task is spawned and the
\* mapping is left as it was.
C12_BadPeriodRejected ==
    [][\A k \in Keys :
        (StartIssued(k) /\ ~ParsesAsInt(args[2])) =>
            IF LiveTasks(k) = {} THEN Refused("ValueError") ELSE Refused("already")]_vars

\* A start with a bad period was refused on a key whose finished loop is
\* still held in the mapping.
C12_Witness ==
    /\ Returned("ValueError")
    /\ Last.was \in FinishedHow
    /\ ~ParsesAsInt(line[Last.seg][3])

\* What a handler that fails is reported as.
Failures == {"ValueError", "TypeError", "Exception"}
FailureLogged == \E i \in DOMAIN log : log[i].ev = "return" /\ log[i].res \in Failures

\* The sub-commands of the line run() has gone through: all of them once the
\* end-of-line push or flush is issued, those before the exit or the empty
\* segment that ended the line otherwise.
Processed ==
    IF Len(log) > 0 /\ Last.ev \in {"push", "flush"} THEN line
    ELSE SubSeq(line, 1, idx - 1)

C14_NoRawTokensOneFlush ==
    (LineOver /\ NoExit(line) /\ RawTokens(line) = <<>>) =>
        /\ Len(Events({"flush"})) = 1
        /\ Events({"push"}) = <<>>
        /\ Ended =>
              /\ ipc = "returned"
              /\ \A k \in Keys : \A t \in LiveTasks(k) : tasks[k][t].cancel

\* C15: the step in which the push of a loop fails with NotConnectedError
\* finishes that loop and nothing else: run() stays where it is, the loops
\* of the other keys and their entries are as before.  A finished task never
\* pushes again, and a new task of a key only comes from a cmd_mendez
\* call that starts one.
C15_LostLoopEndsAlone ==
    [][\A k \in Keys : \A t \in TaskIds :
        /\ (tasks[k][t].pc = "push" /\ tasks'[k][t] = Finished("lost")) =>
              /\ UNCHANGED <<ipc, cause, line, idx, buttons_to_push, log>>
              /\ \A j \in Keys \ {k} :
                    tasks'[j] = tasks[j] /\ mendez_tasks'[j] = mendez_tasks[j]
              /\ LiveTasks(k)' = LiveTasks(k) \ {t}
        /\ tasks[k][t].pc = "done" => tasks'[k][t].pc \notin {"push", "sleep"}
        /\ (tasks[k][t].pc # "new" /\ tasks'[k][t].pc = "new") =>
              StartIssued(k) /\ Returned("started")']_vars

\* One loop has ended on a lost connection while the loop of the other key
\* is in a push and run() waits for input.
C15_Witness ==
    \E k \in Keys : \E j \in Keys \ {k} :
        /\ EntryState(k) = "lost"
        /\ EntryState(j) = "live"
        /\ tasks[j][mendez_tasks[j]].pc = "push"
        /\ ipc = "idle"

\* Task t of key k begins no push while its cancellation is requested.
NoNewPushAfterCancel(k, t) ==
    (tasks[k][t].cancel /\ tasks[k][t].pc # "push") => tasks'[k][t].pc # "push"

\* A stop(k) that finds a live loop returns at once: it confirms, run() goes
\* on to the next sub-command and the loop is requested to stop, not finished.
StopDoesNotWait(k) ==
    (StopIssued(k) /\ LiveTasks(k) # {}) =>
        /\ Returned("stopped")'
        /\ ipc' = "dispatch" /\ idx' = idx + 1
        /\ mendez_tasks' = mendez_tasks
        /\ \A t \in LiveTasks(k) :
              tasks'[k][t] = [tasks[k][t] EXCEPT !.cancel = TRUE]

\* C16 as claimed: a push in flight when the cancellation is requested runs
\* to completion (the loop goes on to the point after the push and ends only
\* from there), no new push is begun after the request, and stop returns
\* without waiting.
C16_PushRunsToCompletion ==
    [][\A k \in Keys :
        /\ \A t \in TaskIds :
              /\ (tasks[k][t].pc = "push" /\ tasks[k][t].cancel
                    /\ tasks'[k][t] # tasks[k][t]) => tasks'[k][t].pc = "sleep"
              /\ NoNewPushAfterCancel(k, t)
        /\ StopDoesNotWait(k)]_vars

\* C16 amended: the cancellation is observed at the await the loop is
\* suspended in, the push in flight included: the next step of a loop whose
\* cancellation is requested ends it as cancelled, the push it was in is
\* abandoned; no new push is begun after the request, and stop returns
\* without waiting.
C16_CancelledAtSuspension ==
    [][\A k \in Keys :
        /\ \A t \in TaskIds :
              /\ (tasks[k][t].pc \in {"push", "sleep"} /\ tasks[k][t].cancel
                    /\ tasks'[k][t] # tasks[k][t]) =>
                        tasks'[k][t] = Finished("cancelled")
              /\ NoNewPushAfterCancel(k, t)
        /\ StopDoesNotWait(k)]_vars

\* stop(k) has just confirmed while the loop of k is suspended in a push.
C16_Witness ==
    \E k \in Keys :
        /\ Returned("stopped") /\ Last.toks = <<k>>
        /\ mendez_tasks[k] # NoTask
        /\ tasks[k][mendez_tasks[k]].pc = "push"
        /\ tasks[k][mendez_tasks[k]].cancel

\* run() is about to call cmd_mendez_list().
ListIssued == Dispatching /\ words # <<>> /\ cmd = "mendez_list" /\ Len(args) = 0

\* What list() reports: the keys whose loop is not finished, sorted.
ListReportsActive ==
    /\ Returned("list")'
    /\ log'[Len(log')].toks = sorted({ k \in Keys : LiveTasks(k) # {} })

\* C17: list() reports exactly the keys whose loop is active, in sorted
\* order, and when it has returned no entry of the mapping holds a finished
\* task.
C17_ListRemovesFinished ==
    [][ListIssued =>
        /\ ListReportsActive
        /\ \A k \in Keys :
              mendez_tasks'[k] # NoTask => ~done(tasks', k, mendez_tasks'[k])]_vars

\* C18: once a sub-command of the line was exit, run() has returned at that
\* sub-command: everything that was called or printed belongs to an earlier
\* sub-command, no push and no flush was issued for the line, and nothing
\* of run() moves any more, so the raw tokens batched before the exit stay
\* unsent.
C18_NothingAfterExit ==
    /\ [](cause = "exit" =>
            /\ ipc = "returned"
            /\ idx <= Len(line) /\ HeadOf(line[idx]) = "exit"
            /\ \A i \in DOMAIN log : log[i].seg < idx
            /\ Events({"push", "flush"}) = <<>>)
    /\ [][cause = "exit" =>
            UNCHANGED <<ipc, cause, line, idx, buttons_to_push, log>>]_vars

\* run() has returned on an exit that follows a raw token in its line.
C18_Witness ==
    /\ cause = "exit"
    /\ buttons_to_push # <<>>
    /\ idx = 2

\* The step requests the cancellation of every loop that is not finished.
AllLiveCancelled == \A k \in Keys : \A t \in LiveTasks(k) : tasks'[k][t].cancel

\* C19: every task that is not finished is the entry of its key in the
\* mapping.  The entry of a key changes only when the task it held is
\* finished, and a task is only put in by a start of that key: neither start
\* nor the cleanup of a worker takes the entry of a live task away.  So
\* stop(k) reaches the live loop of k, and exit and a failed flush reach
\* every live loop.
C19_NoOrphanLoops ==
    /\ [](\A k \in Keys : \A t \in LiveTasks(k) : mendez_tasks[k] = t)
    /\ [][\A k \in Keys :
            /\ (mendez_tasks'[k] # mendez_tasks[k] /\ mendez_tasks[k] # NoTask) =>
                  done(tasks, k, mendez_tasks[k])
            /\ (mendez_tasks'[k] # mendez_tasks[k] /\ mendez_tasks'[k] # NoTask) =>
                  StartIssued(k) /\ tasks'[k][mendez_tasks'[k]] = Created
            /\ (StopIssued(k) /\ LiveTasks(k) # {}) =>
                  \A t \in LiveTasks(k) : tasks'[k][t].cancel
            /\ (cause' \in {"exit", "flush_lost"} /\ cause = "none") =>
                  AllLiveCancelled]_vars

\* A start has put a new task in place of a finished one while the loop of
\* another key is live: each live task is the entry of its key.
C19_Witness ==
    \E k \in Keys : \E j \in Keys \ {k} :
        /\ Returned("started") /\ Last.toks = <<k>> /\ Last.was \in FinishedHow
        /\ LiveTasks(k) = {mendez_tasks[k]}
        /\ LiveTasks(j) = {mendez_tasks[j]}

\* The loop of key k was stopped before its task has run for the first time.
StoppedUnstarted(k) ==
    \E t \in TaskIds : tasks[k][t].pc = "new" /\ tasks[k][t].cancel

\* C20: a task whose cancellation is requested before it has run for the
\* first time never begins a push: its only step ends it as cancelled.  It
\* does end: the entry of its key comes to hold a finished task, and the key
\* is not among those list() reports.
C20_StoppedBeforeFirstRun ==
    /\ [][\A k \in Keys : \A t \in TaskIds :
            (tasks[k][t].pc = "new" /\ tasks[k][t].cancel
                /\ tasks'[k][t] # tasks[k][t]) =>
                    tasks'[k][t] = Finished("cancelled")]_vars
    /\ \A k \in Keys :
            StoppedUnstarted(k) ~> (EntryState(k) = "cancelled" /\ k \notin activos)

\* start(k) and stop(k) were consecutive sub-commands of one line, and at
\* the first await of run() after them the task has ended without a push.
C20_Witness ==
    /\ Len(line) = 2 /\ Len(log) = 5 /\ ipc = "flushing"
    /\ log[2].res = "started" /\ log[4].res = "stopped"
    /\ log[2].toks = log[4].toks
    /\ EntryState(log[2].toks[1]) = "cancelled"

====
